---- MODULE Spec2Model ----
(***************************************************************************)
(* Gravity Glyphs (src/src/main.ts): the level codec (LevelCodec) and the  *)
(* simulation core of Game (loadRoom, step, activatePulse,                 *)
(* checkTileInteractions, respawn, solveX, solveY, updateBeams) with the   *)
(* key listeners of the constructor.                                       *)
(*                                                                         *)
(* Text is a sequence of one-character strings.  Lengths are in 1/900 px,  *)
(* velocities in 1/3 px/s and times in 1/300 s, so that every product the  *)
(* step computes for a dt that is a whole number of 1/300 s is an integer. *)
(***************************************************************************)
EXTENDS Integers, Sequences, FiniteSets, TLC

VARIABLES
    \* ---- LevelCodec calls under test
    cpc,          \* "idle" | "rooms" | "text" | "parsed"
    croomsIn,     \* the Room[] handed to encodeLevels (<<>> when the call starts from text)
    chunksIn,     \* the chunks the source text was assembled from (<<>> when it starts from rooms)
    source,       \* the level text
    result,       \* outcome of parseLevels(source)
    gen,          \* generateProcedural calls under test: arguments, results, the last stream
    \* ---- Game
    rooms,        \* Game.rooms: the room objects, shared by reference with Game.room
    bootRooms,    \* the rooms as bootstrapLevels got them from the codec (never assigned again)
    roomIndex,    \* Game.roomIndex
    room,         \* Game.room: a reference, held as the index of the object in rooms
    beams,        \* Game.beams
    keys,         \* Game.keys
    justPressed,  \* Game.justPressed
    player,       \* Game.player (squash is cosmetic and left out)
    ev,           \* what the last handler did (observations of its intermediate values)
    nSteps,       \* number of step calls so far
    nKeyEvents,   \* number of keydown/keyup events so far
    limits        \* the run's bounds on nSteps and nKeyEvents

codecVars == <<cpc, croomsIn, chunksIn, source, result, gen>>
gameVars == <<rooms, bootRooms, roomIndex, room, beams, keys, justPressed, player, ev, nSteps,
              nKeyEvents, limits>>
vars == <<cpc, croomsIn, chunksIn, source, result, gen,
          rooms, bootRooms, roomIndex, room, beams, keys, justPressed, player, ev, nSteps,
          nKeyEvents, limits>>

----------------------------------------------------------------------------
(* Text helpers: the String methods the codec uses.                        *)

NL == "\n"
SP == " "

\* JS whitespace (\s, trim) restricted to the characters of the model's alphabet
IsWs(c) == c \in {SP, NL}

Max(S) == CHOOSE m \in S : \A n \in S : n <= m
Min(S) == CHOOSE m \in S : \A n \in S : m <= n

\* String.prototype.trimEnd
TrimEnd(s) ==
    LET keep == {i \in 1..Len(s) : ~IsWs(s[i])}
    IN  IF keep = {} THEN <<>> ELSE SubSeq(s, 1, Max(keep))

\* String.prototype.trim
Trim(s) ==
    LET keep == {i \in 1..Len(s) : ~IsWs(s[i])}
    IN  IF keep = {} THEN <<>> ELSE SubSeq(s, Min(keep), Max(keep))

\* String.prototype.startsWith
StartsWith(s, pre) == Len(s) >= Len(pre) /\ SubSeq(s, 1, Len(pre)) = pre

\* String.prototype.split with a one-character separator
RECURSIVE SplitOn(_, _)
SplitOn(s, c) ==
    LET hits == {i \in 1..Len(s) : s[i] = c}
    IN  IF hits = {} THEN <<s>>
        ELSE <<SubSeq(s, 1, Min(hits) - 1)>> \o SplitOn(SubSeq(s, Min(hits) + 1, Len(s)), c)

\* Array.prototype.join
RECURSIVE Join(_, _)
Join(parts, sep) ==
    IF Len(parts) = 0 THEN <<>>
    ELSE IF Len(parts) = 1 THEN parts[1]
    ELSE parts[1] \o sep \o Join(Tail(parts), sep)

\* first index >= i that holds no whitespace (Len(s)+1 when the whitespace runs to the end)
WsRunEnd(s, i) ==
    LET stop == {k \in i..Len(s) : ~IsWs(s[k])}
    IN  IF stop = {} THEN Len(s) + 1 ELSE Min(stop)

\* /\n\s*===\s*\n/ tried at index i: the index after the match, or 0 when it does not
\* match there.  The first \s* must take the whole whitespace run (the next character
\* has to be "="); the second one is greedy and backs off to the last newline of its run.
SepMatchEnd(s, i) ==
    IF s[i] # NL THEN 0
    ELSE LET j == WsRunEnd(s, i + 1)
         IN  IF ~(j + 2 <= Len(s) /\ s[j] = "=" /\ s[j + 1] = "=" /\ s[j + 2] = "=") THEN 0
             ELSE LET k == WsRunEnd(s, j + 3)
                      nls == {m \in (j + 3)..(k - 1) : s[m] = NL}
                  IN  IF nls = {} THEN 0 ELSE Max(nls) + 1

\* source.split(/\n\s*===\s*\n/g)
RECURSIVE SplitSeparator(_)
SplitSeparator(s) ==
    LET hits == {i \in 1..Len(s) : SepMatchEnd(s, i) # 0}
    IN  IF hits = {} THEN <<s>>
        ELSE <<SubSeq(s, 1, Min(hits) - 1)>>
             \o SplitSeparator(SubSeq(s, SepMatchEnd(s, Min(hits)), Len(s)))

\* `${n}` for the small numbers the model prints
Digits(n) == IF n < 10 THEN <<<<"0","1","2","3","4","5","6","7","8","9">>[n + 1]>>
             ELSE <<"#">>

NameEq == <<"n", "a", "m", "e", "=">>
MapMarker == <<"m", "a", "p", ":">>
SeparatorLine == <<NL, "=", "=", "=", NL>>

----------------------------------------------------------------------------
(* LevelCodec                                                              *)

\* the cells of the grid that hold sym, as (x, y) with 0-based coordinates
CellsOf(rows, sym) ==
    {c \in UNION {{<<x, y>> : x \in 0..(Len(rows[y + 1]) - 1)} : y \in 0..(Len(rows) - 1)} :
        rows[c[2] + 1][c[1] + 1] = sym}

\* the scan of parseRoom: each later cell (row-major) holding sym overwrites the earlier one
LastCell(rows, sym) ==
    LET hits == CellsOf(rows, sym)
        lastY == Max({c[2] : c \in hits})
        lastX == Max({c[1] : c \in {d \in hits : d[2] = lastY}})
    IN  [x |-> lastX, y |-> lastY]

\* the name expression of parseRoom: nameLine?.split('=')[1]?.trim() ?? `Room ${index + 1}`
RoomName(lines, index) ==
    LET named == {i \in 1..Len(lines) : StartsWith(lines[i], NameEq)}
    IN  IF named = {} THEN <<"R", "o", "o", "m", SP>> \o Digits(index + 1)
        ELSE Trim(SplitOn(lines[Min(named)], "=")[2])

\* LevelCodec.parseRoom; a throw is the record with ok = FALSE
parseRoom(chunk, index) ==
    LET split == SplitOn(chunk, NL)
        lines == [i \in 1..Len(split) |-> TrimEnd(split[i])]
        name == RoomName(lines, index)
        marks == {i \in 1..Len(lines) : Trim(lines[i]) = MapMarker}
        mapStart == IF marks = {} THEN 0 ELSE Min(marks)
        after == SubSeq(lines, mapStart + 1, Len(lines))
        rows == SelectSeq(after, LAMBDA l : l # <<>>)
        width == IF Len(rows) = 0 THEN 0 ELSE Len(rows[1])
    IN  IF marks = {} THEN [ok |-> FALSE, error |-> "missing map section", name |-> name]
        ELSE IF CellsOf(rows, "S") = {} \/ CellsOf(rows, "G") = {}
             THEN [ok |-> FALSE, error |-> "must contain S and G", name |-> name]
             ELSE [ok |-> TRUE,
                   room |-> [name |-> name, width |-> width, height |-> Len(rows),
                             rows |-> rows, spawn |-> LastCell(rows, "S"),
                             goal |-> LastCell(rows, "G")]]

\* the chunks parseLevels hands to parseRoom: split, trim, filter(Boolean)
Chunks(text) ==
    LET pieces == SplitSeparator(text)
        trimmed == [i \in 1..Len(pieces) |-> Trim(pieces[i])]
    IN  SelectSeq(trimmed, LAMBDA c : c # <<>>)

\* parseLevels that skips the chunks parseRoom rejects and returns the other rooms
parseLevelsSkipBad(text) ==
    LET chunks == Chunks(text)
        parsed == [i \in 1..Len(chunks) |-> parseRoom(chunks[i], i - 1)]
        good == SelectSeq(parsed, LAMBDA r : r.ok)
    IN  [ok |-> TRUE, rooms |-> [i \in 1..Len(good) |-> good[i].room]]

\* LevelCodec.parseLevels; the first throw of the map aborts the call
parseLevels(text) ==
    LET chunks == Chunks(text)
        parsed == [i \in 1..Len(chunks) |-> parseRoom(chunks[i], i - 1)]
        bad == {i \in 1..Len(chunks) : ~parsed[i].ok}
    IN  IF bad # {}
        THEN [ok |-> FALSE, error |-> parsed[Min(bad)].error, name |-> parsed[Min(bad)].name]
        ELSE [ok |-> TRUE, rooms |-> [i \in 1..Len(chunks) |-> parsed[i].room]]

\* encodeLevels with the rows of a room run together (the newline between rows lost)
encodeLevelsRowsJoined(rs) ==
    Join([i \in 1..Len(rs) |-> NameEq \o rs[i].name \o <<NL>> \o MapMarker \o <<NL>>
                               \o Join(rs[i].rows, <<>>)],
         SeparatorLine)

\* LevelCodec.encodeLevels
encodeLevels(rs) ==
    Join([i \in 1..Len(rs) |-> NameEq \o rs[i].name \o <<NL>> \o MapMarker \o <<NL>>
                               \o Join(rs[i].rows, <<NL>>)],
         SeparatorLine)

----------------------------------------------------------------------------
(* mulberry32 and LevelCodec.generateProcedural.  A 32-bit word is a       *)
(* record [hi, lo] of two 16-bit halves, so that no intermediate value     *)
(* leaves the integers TLC computes with.  random() is the word u of the   *)
(* quotient u / 4294967296 it returns.                                     *)

W16 == 65536

Word(hi, lo) == [hi |-> hi, lo |-> lo]

\* seed >>> 0, for a seed that is a natural number
ToUint32(n) == Word((n \div W16) % W16, n % W16)

\* a + b modulo 2^32
Add32(a, b) ==
    LET lo == a.lo + b.lo
    IN  Word((a.hi + b.hi + (lo \div W16)) % W16, lo % W16)

\* x ^ y for 16-bit x and y: Bit(p) is the bit of weight p, Nibble(p) four bits from it on
XorBits(x, y) ==
    LET Bit(p) == (((x \div p) + (y \div p)) % 2) * p
        Nibble(p) == (Bit(p) + Bit(2 * p)) + (Bit(4 * p) + Bit(8 * p))
    IN  (Nibble(1) + Nibble(16)) + (Nibble(256) + Nibble(4096))

\* x | y for 16-bit x and y
OrBits(x, y) ==
    LET Bit(p) == (IF ((x \div p) % 2) = 1 \/ ((y \div p) % 2) = 1 THEN 1 ELSE 0) * p
        Nibble(p) == (Bit(p) + Bit(2 * p)) + (Bit(4 * p) + Bit(8 * p))
    IN  (Nibble(1) + Nibble(16)) + (Nibble(256) + Nibble(4096))

\* a ^ b
Xor32(a, b) ==
    LET ah == a.hi
        al == a.lo
        bh == b.hi
        bl == b.lo
    IN  Word(XorBits(ah, bh), XorBits(al, bl))

\* a | m for a constant m below 2^16
Or32(a, m) ==
    LET al == a.lo
    IN  Word(a.hi, OrBits(al, m))

\* a >>> k for 0 < k < 16
Shr32(a, k) ==
    LET p == 2 ^ k
    IN  Word(a.hi \div p, (a.hi % p) * (W16 \div p) + (a.lo \div p))

\* x * y modulo 2^16 for 16-bit x and y
MulMod16(x, y) == ((x % 256) * y + (((x \div 256) * y) % 256) * 256) % W16

\* Math.imul(a, b): the low 32 bits of the product
Imul(a, b) ==
    LET p0 == (a.lo % 256) * b.lo
        p1 == (a.lo \div 256) * b.lo
        low == p0 + (p1 % 256) * 256
        hi == (low \div W16) + (p1 \div 256) + MulMod16(a.hi, b.lo) + MulMod16(a.lo, b.hi)
    IN  Word(hi % W16, low % W16)

\* 0x6d2b79f5
Increment == Word(27947, 31221)

\* a closure that goes on from the state the last one was left in
mulberry32Shared(seed) == IF gen.calls = 0 THEN ToUint32(seed) ELSE gen.stream

\* mulberry32(seed): the state s = seed >>> 0 of the closure it returns
mulberry32(seed) == ToUint32(seed)

\* the state of the closure k calls after state s: every call does s += 0x6d2b79f5
Advance(s, k) == Add32(s, Imul(ToUint32(k), Increment))

\* the arithmetic of one call from the increased state s: the word u of the value u / 2^32
\*   let t = Math.imul(s ^ (s >>> 15), s | 1);
\*   t ^= t + Math.imul(t ^ (t >>> 7), t | 61);
\*   return ((t ^ (t >>> 14)) >>> 0) / 4294967296
Mix(s) ==
    LET s15 == Shr32(s, 15)
        sx == Xor32(s, s15)
        s1 == Or32(s, 1)
        t1 == Imul(sx, s1)
        t7 == Shr32(t1, 7)
        tx == Xor32(t1, t7)
        t61 == Or32(t1, 61)
        m == Imul(tx, t61)
        sum == Add32(t1, m)
        t2 == Xor32(t1, sum)
        t14 == Shr32(t2, 14)
    IN  Xor32(t2, t14)

\* random(): what call number k = 1, 2, ... from state s returns
random(s, k) == Mix(Advance(s, k))

\* Math.floor(random() * k) for a small k
FloorTimes(u, k) == (u.hi * k + ((u.lo * k) \div W16)) \div W16

\* u is at least w
AtLeast(u, w) == u.hi > w.hi \/ (u.hi = w.hi /\ u.lo >= w.lo)

\* the least u with u / 2^32 > 0.15, > 0.3 and > 0.6 (the doubles of the source)
Over015 == Word(9830, 26215)
Over03 == Word(19660, 52429)
Over06 == Word(39321, 39322)

GEN_W == 28
GEN_H == 15

\* rows filled with '.', then the border loop: '#' on the outermost rows and columns
BorderedRows ==
    [y \in 1..GEN_H |-> [x \in 1..GEN_W |->
        IF x = 1 \/ x = GEN_W \/ y = 1 \/ y = GEN_H THEN "#" ELSE "."]]

\* rows[y][x] = tile, with the 0-based coordinates of the source
SetTile(rows, x, y, tile) == [rows EXCEPT ![y + 1][x + 1] = tile]

\* spanStart and spanEnd of a stripe: the first two draws from state s
SpanStart(s) == 2 + FloorTimes(random(s, 1), 8)
SpanEnd(s) == GEN_W - 3 - FloorTimes(random(s, 2), 8)

\* the number of passes of the inner loop: for (x = spanStart; x < spanEnd; x++)
SpanCells(s) == IF SpanEnd(s) > SpanStart(s) THEN SpanEnd(s) - SpanStart(s) ELSE 0

\* one pass of the stripe loop on row y from state s: every cell of the span gets '#' or
\* '.' from a draw of its own
StripeRow(row, s) ==
    LET spanStart == SpanStart(s)
        spanEnd == SpanEnd(s)
    IN  [x \in 1..GEN_W |->
            IF x - 1 >= spanStart /\ x - 1 < spanEnd
            THEN (IF AtLeast(random(s, 2 + (x - 1 - spanStart) + 1), Over015) THEN "#" ELSE ".")
            ELSE row[x]]

\* const hazards = 10 + Math.floor(random() * 10)
HazardCount(s) == 10 + FloorTimes(random(s, 1), 10)

\* one pass of the hazard loop from state s: x, y and roll are its three draws
Hazard(rows, s) ==
    LET x == 2 + FloorTimes(random(s, 1), GEN_W - 4)
        y == 2 + FloorTimes(random(s, 2), GEN_H - 4)
        roll == random(s, 3)
        tile == IF AtLeast(roll, Over06) THEN "^"
                ELSE IF AtLeast(roll, Over03) THEN "~" ELSE "*"
    IN  SetTile(rows, x, y, tile)

\* spawn and goal written one cell further out, onto the border
PlaceSpawnGoalOnBorder(rows) == SetTile(SetTile(rows, 0, 0, "S"), GEN_W - 1, GEN_H - 1, "G")

\* rows[1][1] = 'S'; rows[h - 2][w - 2] = 'G'
PlaceSpawnGoal(rows) == SetTile(SetTile(rows, 1, 1, "S"), GEN_W - 2, GEN_H - 2, "G")

\* rooms.push({ name: `Generated ${i + 1}`, width, height, rows, spawn, goal })
GeneratedRoom(rows, i) ==
    [name |-> <<"G", "e", "n", "e", "r", "a", "t", "e", "d", SP>> \o Digits(i + 1),
     width |-> GEN_W, height |-> GEN_H, rows |-> PlaceSpawnGoal(rows),
     spawn |-> [x |-> 1, y |-> 1],
     goal |-> [x |-> GEN_W - 2, y |-> GEN_H - 2]]

----------------------------------------------------------------------------
(* Game: constants and units                                               *)

TILE_SIZE == 32
GRAVITY == 1600
MOVE_ACCEL == 2400
DRAG == 1800
MAX_SPEED_X == 290
JUMP_IMPULSE == 540
PLAYER_W == 22
PLAYER_H == 26
PULSE_RADIUS == 220     \* px, activatePulse
BEAM_AMP == 14          \* px, amplitude of a beam's oscillation
BEAM_REACH == 18        \* px, contact radius of a beam
BEAM_RATE == 3          \* rad/s, updateBeams

TicksPerSecond == 300                      \* dt is a whole number of 1/300 s
VelUnit == TicksPerSecond \div 100         \* velocities in 1/3 px/s
PosUnit == VelUnit * TicksPerSecond        \* lengths in 1/900 px

BUFFER_TIME == 45       \* 0.15 s in ticks
COYOTE_TIME == 36       \* 0.12 s in ticks
PULSE_COOLDOWN == TicksPerSecond * 1

DtMax == TicksPerSecond \div 30            \* frame clamps dt to 1/30 s

Tile == TILE_SIZE * PosUnit
HalfTile == Tile \div 2
HalfW == (PLAYER_W * PosUnit) \div 2
HalfH == (PLAYER_H * PosUnit) \div 2

Abs(n) == IF n < 0 THEN -n ELSE n
Sign(n) == IF n > 0 THEN 1 ELSE IF n < 0 THEN -1 ELSE 0
MinOf(a, b) == IF a < b THEN a ELSE b
MaxOf(a, b) == IF a > b THEN a ELSE b

\* clamp of main.ts
clamp(v, lo, hi) == MaxOf(lo, MinOf(hi, v))

\* floor((a*a + b*b) / PosUnit^2) for 0 <= a, b, computed without leaving 32 bits
SumSqPx(a, b) ==
    LET a1 == a \div PosUnit  a0 == a % PosUnit
        b1 == b \div PosUnit  b0 == b % PosUnit
        low == a0 * a0 + b0 * b0
        mid == 2 * (a1 * a0 + b1 * b0) + low \div PosUnit
    IN  a1 * a1 + b1 * b1 + mid \div PosUnit

\* Math.hypot(dx, dy) < rpx, with dx and dy in length units and rpx in px
HypotLess(dx, dy, rpx) ==
    /\ Abs(dx) < rpx * PosUnit
    /\ Abs(dy) < rpx * PosUnit
    /\ SumSqPx(Abs(dx), Abs(dy)) < rpx * rpx

\* a lookup that reads solid wall wherever the grid has no cell
TileAtWalled(rows, x, y) ==
    IF y < 0 \/ y >= Len(rows) THEN "#"
    ELSE IF x < 0 \/ x >= Len(rows[y + 1]) THEN "#"
    ELSE rows[y + 1][x + 1]

\* this.room.rows[y]?.[x]
TileAt(rows, x, y) ==
    IF y < 0 \/ y >= Len(rows) THEN "undefined"
    ELSE IF x < 0 \/ x >= Len(rows[y + 1]) THEN "undefined"
    ELSE rows[y + 1][x + 1]

\* the room object this.room refers to
LiveRoom(g) == g.rooms[g.room + 1]

SpawnCentre(r) ==
    [x |-> r.spawn.x * Tile + HalfTile, y |-> r.spawn.y * Tile + HalfTile]

\* the cells loadRoom visits, in its loop order
RowMajor(w, h) == [i \in 1..(w * h) |-> <<(i - 1) % w, (i - 1) \div w>>]

----------------------------------------------------------------------------
(* Game: loadRoom, respawn, activatePulse                                  *)
(* g is the mutable state a handler works on:                              *)
(*   [rooms, roomIndex, room, beams, player, log]                          *)
(* log collects the observations of the handler for ev.                    *)
(* A beam's phase is base + adv/100 rad + quarter * pi/2, where base is    *)
(* the value Math.random() gave it at load (never read by the model: the   *)
(* contact test is a choice over every offset a wall-clock time can give). *)

\* loadRoom that clamps the index to the last room where the code wraps it
loadRoomClamped(g, index) ==
    LET n == Len(g.rooms)
        ri == MinOf(index, n - 1)
        r == g.rooms[ri + 1]
        stars == SelectSeq(RowMajor(r.width, r.height),
                           LAMBDA c : TileAt(r.rows, c[1], c[2]) = "*")
        newBeams == [i \in 1..Len(stars) |->
                        [x |-> stars[i][1], y |-> stars[i][2],
                         horizontal |-> (((stars[i][1] + stars[i][2]) % 2) = 0),
                         phase |-> [base |-> i, adv |-> 0, quarter |-> 0]]]
        newRows == [y \in 1..Len(r.rows) |->
                        [x \in 1..Len(r.rows[y]) |->
                            IF x <= r.width /\ r.rows[y][x] = "*" THEN "." ELSE r.rows[y][x]]]
        after == [g EXCEPT !.roomIndex = ri,
                           !.room = ri,
                           !.player.pos = SpawnCentre(r),
                           !.player.vel = [x |-> 0, y |-> 0],
                           !.player.gravityDir = 1,
                           !.player.pulseCooldown = 0,
                           !.beams = newBeams,
                           !.rooms[ri + 1].rows = newRows]
    IN  [after EXCEPT !.log.loads = Append(g.log.loads, ri)]

\* Game.loadRoom
loadRoom(g, index) ==
    LET n == Len(g.rooms)
        ri == (index + n) % n
        r == g.rooms[ri + 1]
        stars == SelectSeq(RowMajor(r.width, r.height),
                           LAMBDA c : TileAt(r.rows, c[1], c[2]) = "*")
        newBeams == [i \in 1..Len(stars) |->
                        [x |-> stars[i][1], y |-> stars[i][2],
                         horizontal |-> (((stars[i][1] + stars[i][2]) % 2) = 0),
                         phase |-> [base |-> i, adv |-> 0, quarter |-> 0]]]
        newRows == [y \in 1..Len(r.rows) |->
                        [x \in 1..Len(r.rows[y]) |->
                            IF x <= r.width /\ r.rows[y][x] = "*" THEN "." ELSE r.rows[y][x]]]
        centre == SpawnCentre(r)
        after == [g EXCEPT !.roomIndex = ri,
                           !.room = ri,
                           !.player.pos = centre,
                           !.player.vel = [x |-> 0, y |-> 0],
                           !.player.gravityDir = 1,
                           !.player.pulseCooldown = 0,
                           !.beams = newBeams,
                           !.rooms[ri + 1].rows = newRows]
    IN  [after EXCEPT !.log.loads = Append(g.log.loads, ri)]

\* respawn that also resets the gravity direction, as loadRoom does
respawnResetsGravity(g) ==
    LET centre == SpawnCentre(LiveRoom(g))
        after == [g EXCEPT !.player.deaths = g.player.deaths + 1,
                           !.player.pos = centre,
                           !.player.vel = [x |-> 0, y |-> 0],
                           !.player.gravityDir = 1]
    IN  [after EXCEPT !.log.respawns =
            Append(g.log.respawns,
                   [before |-> [g EXCEPT !.log = <<>>], after |-> [after EXCEPT !.log = <<>>]])]

\* a respawn that leaves the player where the hazard was met
respawnInPlace(g) ==
    LET after == [g EXCEPT !.player.deaths = g.player.deaths + 1,
                           !.player.vel = [x |-> 0, y |-> 0]]
    IN  [after EXCEPT !.log.respawns =
            Append(g.log.respawns,
                   [before |-> [g EXCEPT !.log = <<>>], after |-> [after EXCEPT !.log = <<>>]])]

\* Game.respawn
respawn(g) ==
    LET centre == SpawnCentre(LiveRoom(g))
        after == [g EXCEPT !.player.deaths = g.player.deaths + 1,
                           !.player.pos = centre,
                           !.player.vel = [x |-> 0, y |-> 0]]
    IN  [after EXCEPT !.log.respawns =
            Append(g.log.respawns,
                   [before |-> [g EXCEPT !.log = <<>>], after |-> [after EXCEPT !.log = <<>>]])]

\* a pulse that reaches every beam of the room
InPulseRangeAll(beam, pos) == TRUE

\* the distance test of activatePulse
InPulseRange(beam, pos) ==
    HypotLess(beam.x * Tile + HalfTile - pos.x, beam.y * Tile + HalfTile - pos.y, PULSE_RADIUS)

\* Game.activatePulse
activatePulse(g) ==
    LET p == g.player
        turned == [i \in 1..Len(g.beams) |->
                      IF InPulseRange(g.beams[i], p.pos)
                      THEN [g.beams[i] EXCEPT !.horizontal = ~g.beams[i].horizontal,
                                              !.phase.quarter = g.beams[i].phase.quarter + 1]
                      ELSE g.beams[i]]
        after == IF p.pulseCooldown > 0 THEN g
                 ELSE [g EXCEPT !.player.pulseCooldown = PULSE_COOLDOWN, !.beams = turned]
    IN  [after EXCEPT !.log.pulses =
            Append(g.log.pulses,
                   [cooldown |-> p.pulseCooldown, pos |-> p.pos, before |-> g.beams,
                    after |-> after.beams, cooldownAfter |-> after.player.pulseCooldown])]

----------------------------------------------------------------------------
(* Game: collision resolution                                              *)

\* the tiles the loops of solveX and solveY visit, in loop order (y outer, x inner),
\* from the bounding box of the player on entry
BoxCells(p) ==
    LET minX == (p.pos.x - HalfW) \div Tile
        maxX == (p.pos.x + HalfW) \div Tile
        minY == (p.pos.y - HalfH) \div Tile
        maxY == (p.pos.y + HalfH) \div Tile
        w == maxX - minX + 1
        h == maxY - minY + 1
    IN  [i \in 1..(w * h) |-> <<minX + ((i - 1) % w), minY + ((i - 1) \div w)>>]

\* overlapX and overlapY of the player's box with tile (x, y)
OverlapX(p, x) == MinOf(p.pos.x + HalfW, x * Tile + Tile) - MaxOf(p.pos.x - HalfW, x * Tile)
OverlapY(p, y) == MinOf(p.pos.y + HalfH, y * Tile + Tile) - MaxOf(p.pos.y - HalfH, y * Tile)

\* the body of the loops of solveX for one tile
SolveXCell(p, rows, x, y) ==
    IF TileAt(rows, x, y) # "#" THEN p
    ELSE IF OverlapX(p, x) > 0 /\ OverlapY(p, y) > 0
         THEN [p EXCEPT !.pos.x =
                            IF p.vel.x > 0 THEN x * Tile - HalfW
                            ELSE IF p.vel.x < 0 THEN x * Tile + Tile + HalfW
                            ELSE IF p.pos.x < x * Tile + HalfTile
                                 THEN p.pos.x - OverlapX(p, x)
                                 ELSE p.pos.x + OverlapX(p, x),
                        !.vel.x = 0]
         ELSE p

RECURSIVE SolveXFrom(_, _, _, _)
SolveXFrom(p, rows, cells, i) ==
    IF i > Len(cells) THEN p
    ELSE SolveXFrom(SolveXCell(p, rows, cells[i][1], cells[i][2]), rows, cells, i + 1)

\* Game.solveX
solveX(g) ==
    [g EXCEPT !.player = SolveXFrom(g.player, LiveRoom(g).rows, BoxCells(g.player), 1)]

\* standingOnSurface of solveY
StandingOnSurface(p) ==
    \/ (p.gravityDir = 1 /\ p.vel.y >= 0)
    \/ (p.gravityDir = -1 /\ p.vel.y <= 0)

\* the body of the loops of solveY for one tile; s = [p, hits], hits lists for every
\* collision the vertical velocity read at that collision and whether it counted as landing
SolveYCell(s, rows, x, y) ==
    LET p == s.p
        moved == [p EXCEPT !.pos.y =
                            IF p.vel.y > 0 THEN y * Tile - HalfH
                            ELSE IF p.vel.y < 0 THEN y * Tile + Tile + HalfH
                            ELSE IF p.pos.y < y * Tile + HalfTile
                                 THEN p.pos.y - OverlapY(p, y)
                                 ELSE p.pos.y + OverlapY(p, y),
                           !.vel.y = 0]
        landed == [moved EXCEPT !.grounded = TRUE, !.coyote = COYOTE_TIME]
    IN  IF TileAt(rows, x, y) # "#" THEN s
        ELSE IF OverlapX(p, x) > 0 /\ OverlapY(p, y) > 0
             THEN [p |-> IF StandingOnSurface(p) THEN landed ELSE moved,
                   hits |-> Append(s.hits, [vy |-> p.vel.y, standing |-> StandingOnSurface(p),
                                            x |-> x, y |-> y])]
             ELSE s

RECURSIVE SolveYFrom(_, _, _, _)
SolveYFrom(s, rows, cells, i) ==
    IF i > Len(cells) THEN s
    ELSE SolveYFrom(SolveYCell(s, rows, cells[i][1], cells[i][2]), rows, cells, i + 1)

\* Game.solveY
solveY(g) ==
    LET s == SolveYFrom([p |-> [g.player EXCEPT !.grounded = FALSE], hits |-> <<>>],
                        LiveRoom(g).rows, BoxCells(g.player), 1)
    IN  [g EXCEPT !.player = s.p,
                  !.log.solveY = [vy |-> g.player.vel.y, gravityDir |-> g.player.gravityDir,
                                  hits |-> s.hits]]

\* Game.updateBeams: phase += dt * 3, in 1/100 rad
updateBeams(g, dt) ==
    [g EXCEPT !.beams = [i \in 1..Len(g.beams) |->
        [g.beams[i] EXCEPT !.phase.adv = g.beams[i].phase.adv
                                         + (dt * BEAM_RATE * 100) \div TicksPerSecond]]]

----------------------------------------------------------------------------
(* Game: checkTileInteractions.  performance.now() is an input: for a      *)
(* blinking spike the armed test may go either way, and a beam's offset is *)
(* any value in [-BEAM_AMP, BEAM_AMP].                                     *)

\* the part of d that an offset in [-BEAM_AMP, BEAM_AMP] cannot take away
Residual(d) == IF Abs(d) <= BEAM_AMP * PosUnit THEN 0 ELSE Abs(d) - BEAM_AMP * PosUnit

\* some wall-clock time puts the beam's end within reach of pos
CanTouch(beam, pos) ==
    LET dx == pos.x - (beam.x * Tile + HalfTile)
        dy == pos.y - (beam.y * Tile + HalfTile)
    IN  IF beam.horizontal THEN HypotLess(Residual(dx), dy, BEAM_REACH)
        ELSE HypotLess(dx, Residual(dy), BEAM_REACH)

\* some wall-clock time puts the beam's end out of reach of pos
CanMiss(beam, pos) ==
    LET dx == pos.x - (beam.x * Tile + HalfTile)
        dy == pos.y - (beam.y * Tile + HalfTile)
    IN  IF beam.horizontal THEN ~HypotLess(Abs(dx) + BEAM_AMP * PosUnit, dy, BEAM_REACH)
        ELSE ~HypotLess(dx, Abs(dy) + BEAM_AMP * PosUnit, BEAM_REACH)

\* the values this.beams.some(...) can have
TouchChoices(g) ==
    {t \in BOOLEAN :
        IF t THEN \E i \in 1..Len(g.beams) : CanTouch(g.beams[i], g.player.pos)
        ELSE \A i \in 1..Len(g.beams) : CanMiss(g.beams[i], g.player.pos)}

\* the tile under the player's centre
CentreTile(g) ==
    TileAt(LiveRoom(g).rows, g.player.pos.x \div Tile, g.player.pos.y \div Tile)

\* the values the blinking test Math.sin(now / 400 + tx + ty) > 0 can have where it is read
BlinkChoices(g) == IF CentreTile(g) = "~" THEN BOOLEAN ELSE {FALSE}

\* the spike part of checkTileInteractions
SpikeCheck(g, blink) ==
    IF CentreTile(g) \in {"^", "~"} /\ (CentreTile(g) = "^" \/ blink) THEN respawn(g) ELSE g

\* the beam part of checkTileInteractions
BeamCheck(g, touching) == IF touching THEN respawn(g) ELSE g

\* Game.checkTileInteractions: the states it can end in
checkTileInteractions(g0) ==
    LET g == [g0 EXCEPT !.log.check = <<[tx |-> g0.player.pos.x \div Tile,
                                         ty |-> g0.player.pos.y \div Tile,
                                         roomIndex |-> g0.roomIndex]>>]
    IN  IF CentreTile(g) = "G"
        THEN {loadRoom(g, g.roomIndex + 1)}
        ELSE UNION {{BeamCheck(SpikeCheck(g, blink), t) : t \in TouchChoices(SpikeCheck(g, blink))} :
                        blink \in BlinkChoices(g)}

----------------------------------------------------------------------------
(* Game: step                                                              *)

EmptyLog ==
    [loads |-> <<>>, respawns |-> <<>>, pulses |-> <<>>, check |-> <<>>, jumps |-> <<>>,
     solveY |-> [vy |-> 0, gravityDir |-> 1, hits |-> <<>>],
     decay |-> [jumpBuffer |-> 0, coyote |-> 0, pulseCooldown |-> 0],
     horizontal |-> [axis |-> 0, vxBefore |-> 0, vxAfter |-> 0]]

\* the timers decay below zero
DecayTimersUnfloored(g, dt) ==
    LET after == [g EXCEPT !.player.jumpBuffer = g.player.jumpBuffer - dt,
                           !.player.coyote = g.player.coyote - dt,
                           !.player.pulseCooldown = g.player.pulseCooldown - dt]
    IN  [after EXCEPT !.log.decay = [jumpBuffer |-> after.player.jumpBuffer,
                                     coyote |-> after.player.coyote,
                                     pulseCooldown |-> after.player.pulseCooldown]]

\* a decay that leaves the coyote timer as it is
DecayTimersKeepCoyote(g, dt) ==
    LET after == [g EXCEPT !.player.jumpBuffer = MaxOf(0, g.player.jumpBuffer - dt),
                           !.player.pulseCooldown = MaxOf(0, g.player.pulseCooldown - dt)]
    IN  [after EXCEPT !.log.decay = [jumpBuffer |-> after.player.jumpBuffer,
                                     coyote |-> after.player.coyote,
                                     pulseCooldown |-> after.player.pulseCooldown]]

\* lines 228-230: the timers decay toward zero
DecayTimers(g, dt) ==
    LET after == [g EXCEPT !.player.jumpBuffer = MaxOf(0, g.player.jumpBuffer - dt),
                           !.player.coyote = MaxOf(0, g.player.coyote - dt),
                           !.player.pulseCooldown = MaxOf(0, g.player.pulseCooldown - dt)]
    IN  [after EXCEPT !.log.decay = [jumpBuffer |-> after.player.jumpBuffer,
                                     coyote |-> after.player.coyote,
                                     pulseCooldown |-> after.player.pulseCooldown]]

\* the gravity flip only while the player stands on a surface
HandlePressesFlipGrounded(g, pressed) ==
    LET g1 == IF "Space" \in pressed /\ g.player.grounded
              THEN [g EXCEPT !.player.gravityDir = -g.player.gravityDir] ELSE g
        g2 == IF "KeyX" \in pressed \/ "ShiftLeft" \in pressed THEN activatePulse(g1) ELSE g1
        g3 == IF "ArrowUp" \in pressed \/ "KeyW" \in pressed
              THEN [g2 EXCEPT !.player.jumpBuffer = BUFFER_TIME] ELSE g2
        g4 == IF "KeyR" \in pressed THEN respawn(g3) ELSE g3
    IN  IF "KeyN" \in pressed THEN loadRoom(g4, g4.roomIndex + 1) ELSE g4

\* lines 233-254: the edge-triggered inputs, in the order step handles them
HandlePresses(g, pressed) ==
    LET g1 == IF "Space" \in pressed
              THEN [g EXCEPT !.player.gravityDir = -g.player.gravityDir] ELSE g
        g2 == IF "KeyX" \in pressed \/ "ShiftLeft" \in pressed THEN activatePulse(g1) ELSE g1
        g3 == IF "ArrowUp" \in pressed \/ "KeyW" \in pressed
              THEN [g2 EXCEPT !.player.jumpBuffer = BUFFER_TIME] ELSE g2
        g4 == IF "KeyR" \in pressed THEN respawn(g3) ELSE g3
    IN  IF "KeyN" \in pressed THEN loadRoom(g4, g4.roomIndex + 1) ELSE g4

\* line 256
Axis(held) ==
    (IF "ArrowRight" \in held \/ "KeyD" \in held THEN 1 ELSE 0)
    - (IF "ArrowLeft" \in held \/ "KeyA" \in held THEN 1 ELSE 0)

\* acceleration without the clamp to the max speed
HorizontalUnclamped(g, held, dt) ==
    LET vx == g.player.vel.x
        accel == (Axis(held) * MOVE_ACCEL * VelUnit * dt) \div TicksPerSecond
        drag == (DRAG * VelUnit * dt) \div TicksPerSecond
        after == IF Axis(held) # 0 THEN vx + accel
                 ELSE IF Abs(vx) <= drag THEN 0 ELSE vx - Sign(vx) * drag
    IN  [g EXCEPT !.player.vel.x = after,
                  !.log.horizontal = [axis |-> Axis(held), vxBefore |-> vx, vxAfter |-> after]]

\* lines 258-265: acceleration clamped to the max speed, or drag
Horizontal(g, held, dt) ==
    LET vx == g.player.vel.x
        accel == (Axis(held) * MOVE_ACCEL * VelUnit * dt) \div TicksPerSecond
        drag == (DRAG * VelUnit * dt) \div TicksPerSecond
        after == IF Axis(held) # 0
                 THEN clamp(vx + accel, -(MAX_SPEED_X * VelUnit), MAX_SPEED_X * VelUnit)
                 ELSE IF Abs(vx) <= drag THEN 0 ELSE vx - Sign(vx) * drag
    IN  [g EXCEPT !.player.vel.x = after,
                  !.log.horizontal = [axis |-> Axis(held), vxBefore |-> vx, vxAfter |-> after]]

\* line 267
ApplyGravity(g, dt) ==
    [g EXCEPT !.player.vel.y =
        g.player.vel.y + (GRAVITY * VelUnit * g.player.gravityDir * dt) \div TicksPerSecond]

\* a jump that only asks for the buffered press
JumpReadyNoCoyote(p) == p.jumpBuffer > 0

\* line 269: the condition under which the jump is executed
JumpReady(p) == p.jumpBuffer > 0 /\ p.coyote > 0

\* lines 269-275
Jump(g) ==
    LET p == g.player
        after == IF JumpReady(p)
                 THEN [g EXCEPT !.player.vel.y = -p.gravityDir * JUMP_IMPULSE * VelUnit,
                                !.player.jumpBuffer = 0,
                                !.player.coyote = 0]
                 ELSE g
    IN  [after EXCEPT !.log.jumps =
            <<[jumpBuffer |-> p.jumpBuffer, coyote |-> p.coyote, gravityDir |-> p.gravityDir,
               vyBefore |-> p.vel.y, vyAfter |-> after.player.vel.y,
               jumpBufferAfter |-> after.player.jumpBuffer,
               coyoteAfter |-> after.player.coyote]>>]

\* lines 277-280
MoveX(g, dt) == [g EXCEPT !.player.pos.x = g.player.pos.x + g.player.vel.x * dt]
MoveY(g, dt) == [g EXCEPT !.player.pos.y = g.player.pos.y + g.player.vel.y * dt]

\* Game.step up to the call of checkTileInteractions
Simulate(g, held, pressed, dt) ==
    updateBeams(
        solveY(MoveY(
            solveX(MoveX(
                Jump(ApplyGravity(Horizontal(HandlePresses(DecayTimers(g, dt), pressed),
                                             held, dt),
                                  dt)),
                dt)),
            dt)),
        dt)

\* Game.step: the states it can end in
step(g, held, pressed, dt) == checkTileInteractions(Simulate(g, held, pressed, dt))

----------------------------------------------------------------------------
(* The game before it is constructed: what the fields hold while only the  *)
(* codec is exercised.                                                     *)

\* What a run remembers of its past, for the properties of the jump grace windows (kept
\* only in the sessions that ask for it):
\*   pressAge   ticks since the step that handled a jump press made in the air which no
\*              executed jump has used yet, or -1
\*   landed     the last step ended the fall on the ground with that press younger than
\*              BUFFER_TIME
\*   groundAge  ticks since the last step that ended grounded, with no jump executed
\*              since, or -1
NoHistory == [pressAge |-> -1, landed |-> FALSE, groundAge |-> -1]

\* the jump evaluation j of a step executed the jump
JumpExecuted(j) ==
    /\ j.jumpBuffer > 0
    /\ j.jumpBufferAfter = 0
    /\ j.vyAfter = -j.gravityDir * JUMP_IMPULSE * VelUnit

\* ages are counted up to a cap beyond both windows
AgeCap == BUFFER_TIME + DtMax

\* the history after a step of dt ticks from player state pre with the edges pressed that
\* ended in handler state g
NextHistory(h, pre, pressed, dt, g) ==
    LET jumped == JumpExecuted(g.log.jumps[1])
        press == ("ArrowUp" \in pressed \/ "KeyW" \in pressed) /\ ~pre.grounded
        pressAge == IF jumped THEN -1
                    ELSE IF press THEN 0
                    ELSE IF h.pressAge >= 0 THEN MinOf(h.pressAge + dt, AgeCap)
                    ELSE -1
        groundAge == IF g.player.grounded THEN 0
                     ELSE IF jumped THEN -1
                     ELSE IF h.groundAge >= 0 THEN MinOf(h.groundAge + dt, AgeCap)
                     ELSE -1
    IN  [pressAge |-> pressAge,
         landed |-> (g.player.grounded /\ ~pre.grounded
                     /\ pressAge >= 0 /\ pressAge < BUFFER_TIME),
         groundAge |-> groundAge]

\* the player object of a new Game (lines 154-166)
NewPlayer ==
    [pos |-> [x |-> 0, y |-> 0], vel |-> [x |-> 0, y |-> 0], grounded |-> FALSE,
     gravityDir |-> 1, jumpBuffer |-> 0, coyote |-> 0, pulseCooldown |-> 0, deaths |-> 0]

GameIdle ==
    /\ rooms = <<>> /\ bootRooms = <<>> /\ roomIndex = 0 /\ room = 0 /\ beams = <<>>
    /\ keys = {} /\ justPressed = {} /\ player = NewPlayer
    /\ ev = [kind |-> "none", dt |-> 0, pressed |-> {}, pre |-> NewPlayer, log |-> EmptyLog,
             hist |-> NoHistory, was |-> NoHistory]
    /\ nSteps = 0 /\ nKeyEvents = 0
    /\ limits = [steps |-> 0, keyEvents |-> 0, history |-> FALSE]

----------------------------------------------------------------------------
(* The codec calls under test: encodeLevels on a room list, parseLevels on *)
(* a text.  The game is not running while they are exercised.              *)

MaxGrid == 2        \* variable grids have at most MaxGrid rows of at most MaxGrid cells
MaxChunks == 2      \* texts are assembled from at most MaxChunks chunks

TileSyms == {".", "#", "S", "G", "^", "~", "*"}

\* the symbols the enumerated grids are drawn from
GridSyms == {"S", "G", "."}

GridRows == UNION {[1..k -> GridSyms] : k \in 1..MaxGrid}

\* every grid of 1..MaxGrid rows (ragged rows included) that holds an S and a G
ValidGrids ==
    {g \in UNION {[1..h -> GridRows] : h \in 1..MaxGrid} :
        CellsOf(g, "S") # {} /\ CellsOf(g, "G") # {}}

\* two grids that use every tile symbol, one of them with two S and a short row
FixedGrids ==
    { << <<"#", "S", ".", "^">>, <<"~", "*", "G", "#">> >>,
      << <<"S", "*", "S">>, <<"G", "~">>, <<"^", "#", ".">> >> }

PlainNames == { <<"A">>, <<"R", "o", "o", "m", SP, "2">>, <<>> }
FreeNames == PlainNames \cup { <<"a", "=", "b">>, <<SP, "A">>, <<"A", SP>> }

\* a Room as parseRoom and generateProcedural build it from a grid
MkRoom(name, rows) ==
    [name |-> name, width |-> Len(rows[1]), height |-> Len(rows), rows |-> rows,
     spawn |-> LastCell(rows, "S"), goal |-> LastCell(rows, "G")]

FixedRooms == {MkRoom(n, g) : n \in FreeNames, g \in FixedGrids}

CodecRoomSeqs ==
    {<<MkRoom(<<"A">>, g)>> : g \in ValidGrids}
    \cup {<<a>> : a \in FixedRooms}
    \cup {<<a, b>> : a \in FixedRooms, b \in FixedRooms}

\* chunks of level text: well-formed ones, and ones lacking the marker, S or G
ChunkTexts ==
    { MapMarker \o <<NL, "S", "G">>,
      NameEq \o <<"A", NL>> \o MapMarker \o <<NL, "S", "*", NL, ".", "G">>,
      NameEq \o <<"A", NL, SP>> \o MapMarker \o <<SP, NL, "G", "S">>,
      <<"S", "G">>,
      NameEq \o <<"A", NL, "S", "G">>,
      MapMarker \o <<NL, "G", ".">>,
      MapMarker \o <<NL, "S">>,
      <<"S", NL>> \o MapMarker \o <<NL, "G">>,
      MapMarker }

Separators == { SeparatorLine, <<NL, SP, "=", "=", "=", SP, NL, NL>> }

ChunkSeqs == UNION {[1..n -> ChunkTexts] : n \in 1..MaxChunks}

NoResult == [ok |-> FALSE, error |-> "not called", name |-> <<>>]

\* no generateProcedural call is under test
GenIdle ==
    [pc |-> "idle", seed |-> 0, roomCount |-> 0, calls |-> 0, first |-> <<>>, second |-> <<>>,
     stream |-> Word(0, 0), i |-> 0, y |-> 0, n |-> 0, hazards |-> 0, rows |-> <<>>,
     rooms |-> <<>>]

CodecIdle ==
    /\ cpc = "idle" /\ croomsIn = <<>> /\ chunksIn = <<>> /\ source = <<>> /\ result = NoResult

\* the codec is handed a room list to encode, or a text to parse
InitCodec ==
    /\ result = NoResult
    /\ gen = GenIdle
    /\ \/ /\ cpc = "rooms"
          /\ croomsIn \in CodecRoomSeqs
          /\ chunksIn = <<>>
          /\ source = <<>>
       \/ /\ cpc = "text"
          /\ croomsIn = <<>>
          /\ chunksIn \in ChunkSeqs
          /\ \E sep \in Separators : source = Join(chunksIn, sep)
    /\ GameIdle

\* encodeLevels(rooms) is called
EncodeCall ==
    /\ cpc = "rooms"
    /\ source' = encodeLevels(croomsIn)
    /\ cpc' = "text"
    /\ UNCHANGED <<croomsIn, chunksIn, result, gen>>
    /\ UNCHANGED gameVars

\* parseLevels(source) is called
ParseCall ==
    /\ cpc = "text"
    /\ result' = parseLevels(source)
    /\ cpc' = "parsed"
    /\ UNCHANGED <<croomsIn, chunksIn, source, gen>>
    /\ UNCHANGED gameVars

NextCodec == EncodeCall \/ ParseCall

SpecCodec == InitCodec /\ [][NextCodec]_vars

----------------------------------------------------------------------------
(* generateProcedural under test: it is called with a seed and a room      *)
(* count, called again with the same arguments, and its rooms are handed   *)
(* to encodeLevels and parseLevels as bootstrapLevels does.  A call runs   *)
(* loop pass by loop pass; gen.stream is the state s of its closure.       *)

MaxSeed == 7        \* seeds 0..MaxSeed, and the seed of bootstrapLevels
MaxRooms == 2       \* roomCount is at most MaxRooms

BootSeed == 1337

Seeds == (0..MaxSeed) \cup {BootSeed}

InitGen ==
    /\ CodecIdle
    /\ GameIdle
    /\ \E seed \in Seeds, n \in 0..MaxRooms :
          gen = [GenIdle EXCEPT !.pc = "ready", !.seed = seed, !.roomCount = n]

GenStep(g) ==
    /\ gen' = g
    /\ UNCHANGED <<cpc, croomsIn, chunksIn, source, result>>
    /\ UNCHANGED gameVars

\* generateProcedural(seed, roomCount) is called, the first time and then a second time:
\* const random = mulberry32(seed); const rooms = []
GenerateCall ==
    /\ gen.pc = "ready"
    /\ gen.calls < 2
    /\ GenStep([gen EXCEPT !.pc = "rooms", !.stream = mulberry32(gen.seed), !.i = 0,
                           !.rooms = <<>>])

\* a pass of the room loop begins: the rows with their border
BeginRoom ==
    /\ gen.pc = "rooms"
    /\ gen.i < gen.roomCount
    /\ GenStep([gen EXCEPT !.pc = "stripes", !.rows = BorderedRows, !.y = 3])

\* a pass of the stripe loop: for (let y = 3; y < h - 2; y += 3)
StripePass ==
    /\ gen.pc = "stripes"
    /\ gen.y < GEN_H - 2
    /\ GenStep([gen EXCEPT !.rows[gen.y + 1] = StripeRow(gen.rows[gen.y + 1], gen.stream),
                           !.stream = Advance(gen.stream, 2 + SpanCells(gen.stream)),
                           !.y = gen.y + 3])

\* the stripe loop is over and the number of hazards is drawn
BeginHazards ==
    /\ gen.pc = "stripes"
    /\ gen.y >= GEN_H - 2
    /\ GenStep([gen EXCEPT !.pc = "hazards", !.hazards = HazardCount(gen.stream),
                           !.stream = Advance(gen.stream, 1), !.n = 0])

\* a pass of the hazard loop: for (let n = 0; n < hazards; n++)
HazardPass ==
    /\ gen.pc = "hazards"
    /\ gen.n < gen.hazards
    /\ GenStep([gen EXCEPT !.rows = Hazard(gen.rows, gen.stream),
                           !.stream = Advance(gen.stream, 3), !.n = gen.n + 1])

\* the hazard loop is over: spawn and goal are placed and the room is pushed
EndRoom ==
    /\ gen.pc = "hazards"
    /\ gen.n >= gen.hazards
    /\ GenStep([gen EXCEPT !.pc = "rooms", !.rooms = Append(gen.rooms, GeneratedRoom(gen.rows, gen.i)),
                           !.i = gen.i + 1])

\* the room loop is over: return rooms
GenerateReturn ==
    /\ gen.pc = "rooms"
    /\ gen.i >= gen.roomCount
    /\ GenStep([gen EXCEPT !.pc = "ready", !.calls = gen.calls + 1,
                           !.first = IF gen.calls = 0 THEN gen.rooms ELSE gen.first,
                           !.second = IF gen.calls = 1 THEN gen.rooms ELSE gen.second])

\* bootstrapLevels hands the generated rooms to encodeLevels
SerializeGenerated ==
    /\ gen.pc = "ready"
    /\ gen.calls > 0
    /\ cpc = "idle"
    /\ croomsIn' = gen.first
    /\ cpc' = "rooms"
    /\ UNCHANGED <<chunksIn, source, result, gen>>
    /\ UNCHANGED gameVars

NextGen ==
    \/ GenerateCall \/ BeginRoom \/ StripePass \/ BeginHazards \/ HazardPass \/ EndRoom
    \/ GenerateReturn \/ SerializeGenerated \/ EncodeCall \/ ParseCall

SpecGen == InitGen /\ [][NextGen]_vars

----------------------------------------------------------------------------
(* The session: constructor, key listeners, frames                         *)

MaxSteps == 4        \* frames per run
MaxKeyEvents == 2    \* keydown/keyup events per run

\* the key codes the listeners receive in the model
EventCodes == {"Space", "KeyX", "ShiftLeft", "ArrowUp", "KeyR", "KeyN", "ArrowRight", "ArrowLeft"}

\* the frame times: dt = min(1/30, elapsed)
Dts == {0, DtMax \div 2, DtMax}

\* the level text of a list of grids, as bootstrapLevels serialises generated rooms
LevelText(grids) == encodeLevels([i \in 1..Len(grids) |-> MkRoom(<<"L">> \o Digits(i), grids[i])])

PulseGrid == << <<"S", "*", ".", ".", ".", ".", ".", ".", "*">>, <<"G">> >>
FloorGrid == << <<"#">>, <<"S">>, <<"#">>, <<"G">> >>
SpikeGrid == << <<"^", "*">>, <<"S", "G">> >>
BlinkGrid == << <<"S">>, <<"~">>, <<"G">> >>

\* the level sets a session is bootstrapped from
LevelSets ==
    { <<PulseGrid>>, <<FloorGrid, PulseGrid>>, <<SpikeGrid, BlinkGrid>> }

\* the handler state made of the current values of the variables
Cur == [rooms |-> rooms, roomIndex |-> roomIndex, room |-> room, beams |-> beams,
        player |-> player, log |-> EmptyLog]

\* the variables take the values of handler state g
Becomes(g) ==
    /\ rooms' = g.rooms
    /\ roomIndex' = g.roomIndex
    /\ room' = g.room
    /\ beams' = g.beams
    /\ player' = g.player

\* the constructor: bootstrapLevels, then loadRoom(0)
Constructed(levels, lim) ==
    LET g == loadRoom([rooms |-> levels, roomIndex |-> 0, room |-> 0, beams |-> <<>>,
                       player |-> NewPlayer, log |-> EmptyLog], 0)
    IN  /\ bootRooms = levels
        /\ rooms = g.rooms
        /\ roomIndex = g.roomIndex
        /\ room = g.room
        /\ beams = g.beams
        /\ player = g.player
        /\ ev = [kind |-> "new", dt |-> 0, pressed |-> {}, pre |-> NewPlayer, log |-> g.log,
                 hist |-> NoHistory, was |-> NoHistory]
        /\ keys = {}
        /\ justPressed = {}
        /\ nSteps = 0
        /\ nKeyEvents = 0
        /\ limits = lim

Init ==
    /\ CodecIdle
    /\ gen = GenIdle
    /\ \E grids \in LevelSets :
          Constructed(parseLevels(LevelText(grids)).rooms,
                      [steps |-> MaxSteps, keyEvents |-> MaxKeyEvents, history |-> FALSE])

\* the keydown listener
KeyDown(code) ==
    /\ nKeyEvents < limits.keyEvents
    /\ justPressed' = IF code \in keys THEN justPressed ELSE justPressed \cup {code}
    /\ keys' = keys \cup {code}
    /\ nKeyEvents' = nKeyEvents + 1
    /\ ev' = [kind |-> "keydown", dt |-> 0, pressed |-> {}, pre |-> player, log |-> EmptyLog,
              hist |-> ev.hist, was |-> ev.hist]
    /\ UNCHANGED <<rooms, bootRooms, roomIndex, room, beams, player, nSteps, limits>>
    /\ UNCHANGED codecVars

\* the keyup listener
KeyUp(code) ==
    /\ nKeyEvents < limits.keyEvents
    /\ code \in keys
    /\ keys' = keys \ {code}
    /\ nKeyEvents' = nKeyEvents + 1
    /\ ev' = [kind |-> "keyup", dt |-> 0, pressed |-> {}, pre |-> player, log |-> EmptyLog,
              hist |-> ev.hist, was |-> ev.hist]
    /\ UNCHANGED <<rooms, bootRooms, roomIndex, room, beams, player, justPressed, nSteps, limits>>
    /\ UNCHANGED codecVars

\* one frame: game.step(dt), which ends with justPressed.clear()
Step(dt) ==
    /\ nSteps < limits.steps
    /\ \E g \in step(Cur, keys, justPressed, dt) :
        /\ Becomes(g)
        /\ ev' = [kind |-> "step", dt |-> dt, pressed |-> justPressed, pre |-> player,
                  log |-> g.log,
                  hist |-> IF limits.history
                           THEN NextHistory(ev.hist, player, justPressed, dt, g)
                           ELSE ev.hist,
                  was |-> ev.hist]
    /\ justPressed' = {}
    /\ nSteps' = nSteps + 1
    /\ UNCHANGED <<bootRooms, keys, nKeyEvents, limits>>
    /\ UNCHANGED codecVars

Next ==
    \/ \E code \in EventCodes : KeyDown(code)
    \/ \E code \in EventCodes : KeyUp(code)
    \/ \E dt \in Dts : Step(dt)

Spec == Init /\ [][Next]_vars

----------------------------------------------------------------------------
(* A session in one tall room: a shaft of one column under a ceiling two   *)
(* tiles thick, long enough for the player to reach more than a tile per   *)
(* frame.  Only the jump and gravity keys are used and every frame lasts   *)
(* the full 1/30 s.                                                        *)

MaxShaftSteps == 19
MaxShaftKeyEvents == 4

ShaftCodes == {"ArrowUp", "Space"}

ShaftGrid ==
    << <<"#">>, <<"#">>,
       <<".">>, <<".">>, <<".">>, <<".">>, <<".">>, <<".">>, <<".">>,
       <<".">>, <<".">>, <<".">>, <<".">>, <<".">>, <<".">>, <<".">>,
       <<"S">>, <<"#">>, <<"G">> >>

InitShaft ==
    /\ CodecIdle
    /\ gen = GenIdle
    /\ Constructed(parseLevels(LevelText(<<ShaftGrid>>)).rooms,
                   [steps |-> MaxShaftSteps, keyEvents |-> MaxShaftKeyEvents,
                    history |-> FALSE])

NextShaft ==
    \/ \E code \in ShaftCodes : KeyDown(code)
    \/ \E code \in ShaftCodes : KeyUp(code)
    \/ Step(DtMax)

SpecShaft == InitShaft /\ [][NextShaft]_vars

----------------------------------------------------------------------------
(* Sessions in a room whose second row is shorter than its width and      *)
(* which has no wall at all: the player falls and drifts out of the grid   *)
(* on every side.                                                          *)

EdgeGrid == << <<"S", ".", ".">>, <<"G">> >>

MaxEdgeSteps == 4

MaxEdgeKeyEvents == 2

InitEdge ==
    /\ CodecIdle
    /\ gen = GenIdle
    /\ Constructed(parseLevels(LevelText(<<EdgeGrid>>)).rooms,
                   [steps |-> MaxEdgeSteps, keyEvents |-> MaxEdgeKeyEvents,
                    history |-> FALSE])

SpecEdge == InitEdge /\ [][Next]_vars

----------------------------------------------------------------------------
(* Sessions in rooms with a beam node on a tile next to the spawn tile:    *)
(* below it (a vertical beam, x + y odd) and left of it (a horizontal      *)
(* beam, x + y even).                                                      *)

BeamBelowGrid == << <<"S">>, <<"*">>, <<"G">> >>
BeamLeftGrid == << <<"*", "S", ".">>, <<"#", "#", "G">> >>

MaxBeamSteps == 3

MaxBeamKeyEvents == 2

InitBeam ==
    /\ CodecIdle
    /\ gen = GenIdle
    /\ \E grids \in { <<BeamBelowGrid>>, <<BeamLeftGrid>> } :
          Constructed(parseLevels(LevelText(grids)).rooms,
                      [steps |-> MaxBeamSteps, keyEvents |-> MaxBeamKeyEvents,
                       history |-> FALSE])

SpecBeam == InitBeam /\ [][Next]_vars

----------------------------------------------------------------------------
(* Sessions in a room whose spawn tile has an always-on spike to its right *)
(* and the goal below it, followed by the room with the blinking spike.    *)

HazardGrid == << <<"S", "^">>, <<"G">> >>

MaxHazardSteps == 4

MaxHazardKeyEvents == 2

HazardCodes == {"ArrowRight", "Space", "KeyR", "KeyN"}

InitHazard ==
    /\ CodecIdle
    /\ gen = GenIdle
    /\ Constructed(parseLevels(LevelText(<<HazardGrid, BlinkGrid>>)).rooms,
                   [steps |-> MaxHazardSteps, keyEvents |-> MaxHazardKeyEvents,
                    history |-> FALSE])

NextHazard ==
    \/ \E code \in HazardCodes : KeyDown(code)
    \/ \E code \in HazardCodes : KeyUp(code)
    \/ \E dt \in Dts : Step(dt)

SpecHazard == InitHazard /\ [][NextHazard]_vars

----------------------------------------------------------------------------
(* Sessions for the jump grace windows: a drop of a little more than a     *)
(* tile onto a floor, and a floor right under the spawn with open space    *)
(* above it.  The frames have positive length and the run keeps its        *)
(* history.                                                                *)

MaxTimerSteps == 7
MaxTimerKeyEvents == 2

TimerCodes == {"ArrowUp", "Space"}

\* dt = min(1/30, elapsed) for frames of positive length
TimerDts == {DtMax \div 2, DtMax}

DropGrid == << <<"S">>, <<".">>, <<"#">>, <<"G">> >>
LedgeGrid == << <<"S">>, <<"#">>, <<"G">> >>

InitTimers ==
    /\ CodecIdle
    /\ gen = GenIdle
    /\ \E grid \in {DropGrid, LedgeGrid} :
          Constructed(parseLevels(LevelText(<<grid>>)).rooms,
                      [steps |-> MaxTimerSteps, keyEvents |-> MaxTimerKeyEvents,
                       history |-> TRUE])

NextTimers ==
    \/ \E code \in TimerCodes : KeyDown(code)
    \/ \E code \in TimerCodes : KeyUp(code)
    \/ \E dt \in TimerDts : Step(dt)

SpecTimers == InitTimers /\ [][NextTimers]_vars

----------------------------------------------------------------------------
(* Properties                                                              *)

PlayerPlacedAtSpawn ==
    /\ room = roomIndex
    /\ player.pos = SpawnCentre(rooms[roomIndex + 1])
    /\ player.vel = [x |-> 0, y |-> 0]
    /\ player.gravityDir = 1
    /\ player.pulseCooldown = 0

\* the step's tile-interaction evaluation found the player's centre on the goal tile of
\* the room that was current then
GoalContact ==
    /\ ev.kind = "step"
    /\ [x |-> ev.log.check[1].tx, y |-> ev.log.check[1].ty]
           = rooms[ev.log.check[1].roomIndex + 1].goal

\* C1: a step whose tile-interaction evaluation finds the player's centre on the goal tile
\* of room i ends with roomIndex = (i + 1) mod n, the live room being rooms[roomIndex], the
\* player on the spawn centre of that room with zero velocity, gravityDir = +1 and
\* pulseCooldown = 0; the constructor's loadRoom(0) places the player the same way in room 0.
C1_GoalAdvances ==
    /\ ev.kind = "new" => (roomIndex = 0 /\ PlayerPlacedAtSpawn)
    /\ GoalContact =>
          /\ roomIndex = (ev.log.check[1].roomIndex + 1) % Len(rooms)
          /\ PlayerPlacedAtSpawn

\* C1 witness: the goal of the last of two rooms is reached and the index wraps to 0
C1_Witness ==
    /\ GoalContact
    /\ Len(rooms) = 2
    /\ ev.log.check[1].roomIndex = 1
    /\ roomIndex = 0

\* C2: every respawn adds exactly one to deaths, puts the player on the spawn centre of the
\* current room with zero velocity, and leaves gravityDir, pulseCooldown, the beams, the
\* room objects (the live grid among them), roomIndex and the live-room reference unchanged.
C2_RespawnFrame ==
    \A k \in DOMAIN ev.log.respawns :
        LET b == ev.log.respawns[k].before
            a == ev.log.respawns[k].after
        IN  /\ a.player.deaths = b.player.deaths + 1
            /\ a.player.pos = SpawnCentre(b.rooms[b.room + 1])
            /\ a.player.vel = [x |-> 0, y |-> 0]
            /\ a.player.gravityDir = b.player.gravityDir
            /\ a.player.pulseCooldown = b.player.pulseCooldown
            /\ a.beams = b.beams
            /\ a.rooms = b.rooms
            /\ a.roomIndex = b.roomIndex
            /\ a.room = b.room

\* C2 witness: a hazard (not the reset key) respawned the player while gravity was flipped,
\* the pulse was cooling down and the room had beams
C2_Witness ==
    /\ ev.kind = "step"
    /\ "KeyR" \notin ev.pressed
    /\ Len(ev.log.respawns) = 1
    /\ ev.log.respawns[1].before.player.gravityDir = -1
    /\ ev.log.respawns[1].before.player.pulseCooldown > 0
    /\ ev.log.respawns[1].before.beams # <<>>
    /\ ev.log.respawns[1].before.player.pos # ev.log.respawns[1].after.player.pos

\* C3: after every load of room i the beam set has exactly one beam per phase-beam-seed
\* tile of room i as the codec produced it, each at that tile's coordinate, and those cells
\* read as empty in the live grid.
C3_BeamsRebuiltOnEveryLoad ==
    ev.log.loads # <<>> =>
        LET stars == CellsOf(bootRooms[roomIndex + 1].rows, "*")
        IN  /\ Len(beams) = Cardinality(stars)
            /\ {<<beams[i].x, beams[i].y>> : i \in 1..Len(beams)} = stars
            /\ \A c \in stars : TileAt(rooms[room + 1].rows, c[1], c[2]) = "."

\* C5: in every step the jump evaluation reads the timers after their decay and after a
\* just-pressed jump has filled jumpBuffer; when both are positive there, the vertical
\* velocity becomes -gravityDir * jumpImpulse and both timers become 0; otherwise the
\* velocity and both timers are left as they were.
C5_JumpGating ==
    ev.kind = "step" =>
        LET j == ev.log.jumps[1]
        IN  /\ j.coyote = MaxOf(0, ev.pre.coyote - ev.dt)
            /\ j.jumpBuffer = IF ev.pressed \cap {"ArrowUp", "KeyW"} # {} THEN BUFFER_TIME
                              ELSE MaxOf(0, ev.pre.jumpBuffer - ev.dt)
            /\ IF j.jumpBuffer > 0 /\ j.coyote > 0
               THEN /\ j.vyAfter = -j.gravityDir * JUMP_IMPULSE * VelUnit
                    /\ j.jumpBufferAfter = 0
                    /\ j.coyoteAfter = 0
               ELSE /\ j.vyAfter = j.vyBefore
                    /\ j.jumpBufferAfter = j.jumpBuffer
                    /\ j.coyoteAfter = j.coyote

\* C5 witness: a jump is executed on a press that comes while coyote has partly run down
C5_Witness ==
    /\ ev.kind = "step"
    /\ ev.log.jumps[1].jumpBuffer = BUFFER_TIME
    /\ ev.log.jumps[1].coyote > 0
    /\ ev.log.jumps[1].coyote < COYOTE_TIME
    /\ ev.log.jumps[1].vyAfter = -JUMP_IMPULSE * VelUnit
    /\ ev.log.jumps[1].vyBefore # ev.log.jumps[1].vyAfter

\* the beam's node centre is less than 220 px from pos
WithinPulseRadius(beam, pos) ==
    LET dx == Abs(beam.x * Tile + HalfTile - pos.x)
        dy == Abs(beam.y * Tile + HalfTile - pos.y)
    IN  dx < 220 * PosUnit /\ dy < 220 * PosUnit /\ SumSqPx(dx, dy) < 220 * 220

\* C7: a step invokes the pulse once when a pulse key was just pressed and not otherwise;
\* invoked with pulseCooldown = 0 it sets pulseCooldown to its full window, flips the
\* orientation and adds a quarter turn to the phase of exactly the beams whose node centre
\* is within 220 px of the player, and leaves every other beam unchanged; invoked with
\* pulseCooldown > 0 it changes no beam and not pulseCooldown.
C7_PulseFrame ==
    ev.kind = "step" =>
        /\ Len(ev.log.pulses) = IF ev.pressed \cap {"KeyX", "ShiftLeft"} # {} THEN 1 ELSE 0
        /\ \A k \in DOMAIN ev.log.pulses :
              LET u == ev.log.pulses[k]
              IN  IF u.cooldown = 0
                  THEN /\ u.cooldownAfter = PULSE_COOLDOWN
                       /\ Len(u.after) = Len(u.before)
                       /\ \A i \in 1..Len(u.before) :
                             IF WithinPulseRadius(u.before[i], u.pos)
                             THEN u.after[i] =
                                     [u.before[i] EXCEPT
                                         !.horizontal = ~u.before[i].horizontal,
                                         !.phase.quarter = u.before[i].phase.quarter + 1]
                             ELSE u.after[i] = u.before[i]
                  ELSE /\ u.after = u.before
                       /\ u.cooldownAfter = u.cooldown

\* C7 witness: a pulse with pulseCooldown = 0 turns one beam and leaves another one alone
C7_Witness ==
    /\ ev.kind = "step"
    /\ Len(ev.log.pulses) = 1
    /\ ev.log.pulses[1].cooldown = 0
    /\ \E i, j \in 1..Len(ev.log.pulses[1].before) :
          /\ ev.log.pulses[1].after[i] # ev.log.pulses[1].before[i]
          /\ ev.log.pulses[1].after[j] = ev.log.pulses[1].before[j]

\* a pulse was invoked while the cooldown was running
C7_CooldownReached ==
    /\ ev.kind = "step"
    /\ Len(ev.log.pulses) = 1
    /\ ev.log.pulses[1].cooldown > 0
    /\ ev.log.pulses[1].before # <<>>

CodecRoundTripDone == cpc = "parsed" /\ croomsIn # <<>>

\* C8: for every room list handed to encodeLevels, parseLevels of the encoded text succeeds
\* and returns as many rooms, in the same order, each with the rows, width, height, spawn
\* and goal of the room it came from.
C8_GridRoundTrip ==
    CodecRoundTripDone =>
        /\ result.ok
        /\ Len(result.rooms) = Len(croomsIn)
        /\ \A i \in 1..Len(croomsIn) :
              /\ result.rooms[i].rows = croomsIn[i].rows
              /\ result.rooms[i].width = croomsIn[i].width
              /\ result.rooms[i].height = croomsIn[i].height
              /\ result.rooms[i].spawn = croomsIn[i].spawn
              /\ result.rooms[i].goal = croomsIn[i].goal

\* C8 witness: two rooms with different grids, one of them ragged with two spawn symbols,
\* have gone through encodeLevels and parseLevels
C8_Witness ==
    /\ CodecRoundTripDone
    /\ Len(croomsIn) = 2
    /\ croomsIn[1].rows # croomsIn[2].rows
    /\ Cardinality(CellsOf(croomsIn[2].rows, "S")) = 2
    /\ result.ok

\* C9: parseLevels(encodeLevels(r)) reproduces the name of every room exactly.
C9_NameRoundTrip ==
    CodecRoundTripDone =>
        /\ result.ok
        /\ Len(result.rooms) = Len(croomsIn)
        /\ \A i \in 1..Len(croomsIn) : result.rooms[i].name = croomsIn[i].name

\* the lines of a chunk, and what the format says about it
ChunkLines(c) == SplitOn(c, NL)
MarkerLines(c) == {i \in 1..Len(ChunkLines(c)) : Trim(ChunkLines(c)[i]) = MapMarker}
GridOf(c) ==
    LET after == SubSeq(ChunkLines(c), Min(MarkerLines(c)) + 1, Len(ChunkLines(c)))
        ended == [i \in 1..Len(after) |-> TrimEnd(after[i])]
    IN  SelectSeq(ended, LAMBDA l : l # <<>>)
GridHas(c, sym) == \E y \in 1..Len(GridOf(c)) : \E x \in 1..Len(GridOf(c)[y]) : GridOf(c)[y][x] = sym
ChunkWellFormed(c) == MarkerLines(c) # {} /\ GridHas(c, "S") /\ GridHas(c, "G")

\* C10: parseLevels fails, returning no room list, whenever some chunk has no map-marker
\* line or a grid without S or without G; when every chunk has the marker, an S and a G it
\* returns one room per chunk, in input order.
C10_AllOrNothing ==
    (cpc = "parsed" /\ chunksIn # <<>>) =>
        IF \A i \in 1..Len(chunksIn) : ChunkWellFormed(chunksIn[i])
        THEN /\ result.ok
             /\ Len(result.rooms) = Len(chunksIn)
             /\ \A i \in 1..Len(chunksIn) : result.rooms[i].rows = GridOf(chunksIn[i])
        ELSE /\ ~result.ok
             /\ "rooms" \notin DOMAIN result

\* C10 witness: a text whose first chunk is well formed and whose second one is not was
\* parsed and rejected as a whole
C10_Witness ==
    /\ cpc = "parsed"
    /\ Len(chunksIn) = 2
    /\ ChunkWellFormed(chunksIn[1])
    /\ ~ChunkWellFormed(chunksIn[2])
    /\ ~result.ok

----------------------------------------------------------------------------
(* Collision properties                                                    *)

\* the player's box overlaps solid tile (x, y) of the live room on both axes
Penetrates(x, y) ==
    /\ TileAt(rooms[room + 1].rows, x, y) = "#"
    /\ OverlapX(player, x) > 0
    /\ OverlapY(player, y) > 0

\* C4: after every step the player's bounding box has no positive overlap with a solid
\* tile of the live room.
C4_NoPenetration ==
    ev.kind = "step" =>
        \A c \in {BoxCells(player)[i] : i \in DOMAIN BoxCells(player)} : ~Penetrates(c[1], c[2])

\* the velocity the player moved with in the vertical pass opposes the landing direction
MovedAgainstGravity ==
    \/ (ev.log.solveY.gravityDir = 1 /\ ev.log.solveY.vy < 0)
    \/ (ev.log.solveY.gravityDir = -1 /\ ev.log.solveY.vy > 0)

\* C6: after a step, grounded holds exactly when the vertical pass had a solid-tile
\* collision, however many tiles it resolved, and the velocity the player moved with did not
\* oppose the landing direction; then coyote is the full window.
C6_Landing ==
    ev.kind = "step" =>
        /\ player.grounded <=> (ev.log.solveY.hits # <<>> /\ ~MovedAgainstGravity)
        /\ MovedAgainstGravity => ~player.grounded
        /\ player.grounded => player.coyote = COYOTE_TIME

----------------------------------------------------------------------------
(* Properties of generateProcedural                                        *)

\* room r is a generated room as the placement rule describes it
GeneratedRoomValid(r) ==
    /\ r.width = 28 /\ r.height = 15
    /\ Len(r.rows) = 15
    /\ \A y \in 1..Len(r.rows) : Len(r.rows[y]) = 28
    /\ \A y \in 0..14 : \A x \in 0..27 :
          (x = 0 \/ x = 27 \/ y = 0 \/ y = 14) => TileAt(r.rows, x, y) = "#"
    /\ r.spawn = [x |-> 1, y |-> 1]
    /\ CellsOf(r.rows, "S") = {<<1, 1>>}
    /\ r.goal = [x |-> 26, y |-> 13]
    /\ CellsOf(r.rows, "G") = {<<26, 13>>}

\* C11: generateProcedural returns exactly roomCount rooms, each 28 x 15 with a solid
\* border, the only S at (1,1) and the only G at (26,13), and parseLevels(encodeLevels(.))
\* of the generated rooms succeeds with one room per generated room
C11_GeneratedRoomsValid ==
    /\ gen.calls > 0 =>
          /\ Len(gen.first) = gen.roomCount
          /\ \A i \in 1..Len(gen.first) : GeneratedRoomValid(gen.first[i])
    /\ (gen.calls > 0 /\ cpc = "parsed") =>
          /\ result.ok
          /\ Len(result.rooms) = gen.roomCount

\* some generated room holds a platform tile in a stripe row and a hazard of each kind,
\* and the generated rooms went through encodeLevels and parseLevels
C11_Witness ==
    /\ gen.calls > 0 /\ cpc = "parsed" /\ gen.roomCount >= 2
    /\ \E i \in 1..Len(gen.first) :
          /\ \E x \in 2..25 : TileAt(gen.first[i].rows, x, 3) = "#"
          /\ \A sym \in {"^", "~", "*"} : CellsOf(gen.first[i].rows, sym) # {}

\* C13: a second call of generateProcedural with the same seed and roomCount returns the
\* same rooms (grids, spawn, goal) as the first, although a stream has been used since
C13_Deterministic ==
    gen.calls = 2 =>
        /\ Len(gen.second) = Len(gen.first)
        /\ \A i \in 1..Len(gen.first) :
              /\ gen.second[i].rows = gen.first[i].rows
              /\ gen.second[i].spawn = gen.first[i].spawn
              /\ gen.second[i].goal = gen.first[i].goal

\* both calls were made, they drew from the stream, and it was left in a state other
\* than the one the seed gives
C13_Witness ==
    /\ gen.calls = 2
    /\ gen.roomCount >= 1
    /\ gen.stream # mulberry32(gen.seed)
    /\ gen.second = gen.first

----------------------------------------------------------------------------
(* Properties of loads: the death counter and the stored rooms             *)

\* C16: a load resets the death counter: after a step (or the constructor) that loaded a
\* room and respawned nobody, player.deaths is 0; and no respawn lowers the counter
C16_LoadResetsDeathCount ==
    /\ (ev.log.loads # <<>> /\ ev.log.respawns = <<>>) => player.deaths = 0
    /\ \A k \in DOMAIN ev.log.respawns :
          ev.log.respawns[k].after.player.deaths > ev.log.respawns[k].before.player.deaths

\* C17: the stored rooms are the rooms bootstrapLevels got from the codec: same rows, spawn
\* and goal for every room, hence the same encodeLevels text
C17_StoredRoomsUnchanged ==
    /\ Len(rooms) = Len(bootRooms)
    /\ \A i \in 1..Len(rooms) :
          /\ rooms[i].rows = bootRooms[i].rows
          /\ rooms[i].spawn = bootRooms[i].spawn
          /\ rooms[i].goal = bootRooms[i].goal
    /\ encodeLevels(rooms) = encodeLevels(bootRooms)

----------------------------------------------------------------------------
(* Properties of one step: speed, timers, gravity direction, lookups       *)

\* one drag step of a frame of dt ticks, in velocity units
DragStep(dt) == (DRAG * VelUnit * dt) \div TicksPerSecond

\* C18: |vel.x| never exceeds the max speed; a step with no direction held moves vel.x
\* toward 0 by one drag step, to exactly 0 when it is within one drag step of 0, and never
\* across 0
C18_HorizontalSpeed ==
    /\ Abs(player.vel.x) <= MAX_SPEED_X * VelUnit
    /\ (ev.kind = "step" /\ ev.log.horizontal.axis = 0) =>
          LET b == ev.log.horizontal.vxBefore
              a == ev.log.horizontal.vxAfter
          IN  /\ Abs(b) <= DragStep(ev.dt) => a = 0
              /\ Abs(b) > DragStep(ev.dt) =>
                    /\ Abs(a) = Abs(b) - DragStep(ev.dt)
                    /\ Sign(a) = Sign(b)

\* C18 witness: with no direction held a step took a full drag step off a moving player,
\* who keeps moving the same way
C18_Witness ==
    /\ ev.kind = "step"
    /\ ev.dt > 0
    /\ ev.log.horizontal.axis = 0
    /\ ev.log.horizontal.vxBefore > DragStep(ev.dt)
    /\ ev.log.horizontal.vxAfter > 0
    /\ player.vel.x = ev.log.horizontal.vxAfter

\* C19: the timers stay in [0, BUFFER_TIME], [0, COYOTE_TIME] and [0, PULSE_COOLDOWN] and
\* gravityDir is +1 or -1; a step lowers each timer by dt, not below 0, before it handles
\* input: a jump press then finds the full buffer, and the pulse is gated by the lowered
\* cooldown
C19_Timers ==
    /\ player.jumpBuffer >= 0 /\ player.jumpBuffer <= BUFFER_TIME
    /\ player.coyote >= 0 /\ player.coyote <= COYOTE_TIME
    /\ player.pulseCooldown >= 0 /\ player.pulseCooldown <= PULSE_COOLDOWN
    /\ player.gravityDir \in {1, -1}
    /\ ev.kind = "step" =>
          /\ ev.log.decay.jumpBuffer = MaxOf(0, ev.pre.jumpBuffer - ev.dt)
          /\ ev.log.decay.coyote = MaxOf(0, ev.pre.coyote - ev.dt)
          /\ ev.log.decay.pulseCooldown = MaxOf(0, ev.pre.pulseCooldown - ev.dt)
          /\ ev.log.jumps[1].jumpBuffer =
                IF "ArrowUp" \in ev.pressed \/ "KeyW" \in ev.pressed THEN BUFFER_TIME
                ELSE ev.log.decay.jumpBuffer
          /\ \A k \in DOMAIN ev.log.pulses :
                ev.log.pulses[k].cooldown = ev.log.decay.pulseCooldown

\* C19 witness: a step of positive length lowered a running coyote timer and a running
\* pulse cooldown, left the expired jump buffer at 0, and then handled a jump press
C19_Witness ==
    /\ ev.kind = "step"
    /\ ev.dt > 0
    /\ ev.pre.coyote > 0 /\ ev.log.decay.coyote < ev.pre.coyote
    /\ ev.pre.pulseCooldown > 0 /\ ev.log.decay.pulseCooldown < ev.pre.pulseCooldown
    /\ ev.pre.jumpBuffer = 0 /\ ev.log.decay.jumpBuffer = 0
    /\ "ArrowUp" \in ev.pressed
    /\ ev.log.jumps[1].jumpBuffer = BUFFER_TIME

\* the gravity direction after the flip edge of a step was handled
Flipped == IF "Space" \in ev.pressed THEN -ev.pre.gravityDir ELSE ev.pre.gravityDir

\* C20: a step with the flip edge negates gravityDir once, before gravity is added to the
\* vertical velocity, grounded or not; gravityDir changes in no other way, except that a
\* load sets it to +1
C20_GravityFlip ==
    ev.kind = "step" =>
        LET used == IF "KeyN" \in ev.pressed THEN 1 ELSE Flipped
            vy0 == IF "KeyR" \in ev.pressed \/ "KeyN" \in ev.pressed THEN 0 ELSE ev.pre.vel.y
        IN  /\ player.gravityDir = IF ev.log.loads # <<>> THEN 1 ELSE Flipped
            /\ ev.log.jumps[1].gravityDir = used
            /\ ev.log.jumps[1].vyBefore =
                  vy0 + (GRAVITY * VelUnit * used * ev.dt) \div TicksPerSecond

\* C20 witness: the flip edge arrived while the player stood on the ground; the step
\* turned gravity upward and added it to the vertical velocity in the new direction
C20_Witness ==
    /\ ev.kind = "step"
    /\ ev.dt > 0
    /\ "Space" \in ev.pressed
    /\ ev.pre.grounded
    /\ ev.pre.gravityDir = 1
    /\ ev.log.loads = <<>>
    /\ player.gravityDir = -1
    /\ ev.log.jumps[1].vyBefore < ev.pre.vel.y

\* cell (x, y) is no cell of the grid: outside it, or beyond the end of its row
NoCell(rows, x, y) ==
    y < 0 \/ y >= Len(rows) \/ x < 0 \/ x >= Len(rows[y + 1])

\* C12: in every state of a session step has an outcome for every frame time; where the
\* player's box or centre is over a cell the grid does not have, that cell neither stops
\* the box in solveX or solveY nor kills or finishes the room in checkTileInteractions;
\* and every collision solveY resolved in a step was with a cell of the grid
C12_StepTotal ==
    LET rows == rooms[room + 1].rows
        cells == BoxCells(player)
        cx == player.pos.x \div Tile
        cy == player.pos.y \div Tile
    IN  /\ \A dt \in Dts : step(Cur, keys, justPressed, dt) # {}
        /\ \A i \in 1..Len(cells) :
              NoCell(rows, cells[i][1], cells[i][2]) =>
                  /\ SolveXCell(player, rows, cells[i][1], cells[i][2]) = player
                  /\ SolveYCell([p |-> player, hits |-> <<>>], rows,
                                cells[i][1], cells[i][2]).hits = <<>>
        /\ NoCell(rows, cx, cy) =>
              /\ CentreTile(Cur) # "G"
              /\ \A blink \in BOOLEAN : SpikeCheck(Cur, blink).log.respawns = <<>>
        /\ ev.kind = "step" =>
              \A k \in DOMAIN ev.log.solveY.hits :
                  ~NoCell(rooms[ev.log.check[1].roomIndex + 1].rows,
                          ev.log.solveY.hits[k].x, ev.log.solveY.hits[k].y)

\* C12 witness: a step ended with the centre inside the room's width but beyond the end of
\* a short row, where checkTileInteractions looked the tile up, and the player lives on
C12_Witness ==
    LET rows == rooms[room + 1].rows
        cells == BoxCells(player)
        cx == player.pos.x \div Tile
        cy == player.pos.y \div Tile
    IN  /\ ev.kind = "step"
        /\ ev.log.check[1].tx = cx /\ ev.log.check[1].ty = cy
        /\ cy >= 0 /\ cy < Len(rows)
        /\ cx >= Len(rows[cy + 1]) /\ cx < rooms[room + 1].width
        /\ \E i \in 1..Len(cells) : NoCell(rows, cells[i][1], cells[i][2])
        /\ ev.log.respawns = <<>> /\ ev.log.loads = <<>>

----------------------------------------------------------------------------
(* Properties of the jump grace windows                                    *)

\* C14: when a jump was pressed in the air and the player landed less than BUFFER_TIME
\* after the step that handled the press, with no jump executed in between, the buffered
\* jump is executed at the first jump evaluation after the landing
C14_BufferedJump ==
    (ev.kind = "step" /\ ev.was.landed) => JumpExecuted(ev.log.jumps[1])

\* C15: a jump press handled by a step at whose end less than COYOTE_TIME has passed since
\* the last step that ended grounded, with no jump executed since, executes the jump; a
\* press handled when COYOTE_TIME or more has passed executes none
C15_CoyoteJump ==
    (ev.kind = "step" /\ "ArrowUp" \in ev.pressed /\ ev.was.groundAge >= 0) =>
        IF ev.was.groundAge + ev.dt < COYOTE_TIME
        THEN JumpExecuted(ev.log.jumps[1])
        ELSE ~JumpExecuted(ev.log.jumps[1])

\* C15 witness: the player left the ground at least one step ago, is in the air, and the
\* press of this step still executed the jump
C15_Witness ==
    /\ ev.kind = "step"
    /\ "ArrowUp" \in ev.pressed
    /\ ev.was.groundAge > 0
    /\ ev.was.groundAge + ev.dt < COYOTE_TIME
    /\ ~ev.pre.grounded
    /\ JumpExecuted(ev.log.jumps[1])
    /\ ~player.grounded


----------------------------------------------------------------------------
(* Properties of respawns within one step                                  *)

\* C21: a single step adds at most one to deaths: the reset key, the spike check and the
\* beam check of one step together respawn the player at most once.
C21_OneDeathPerStep ==
    ev.kind = "step" =>
        /\ player.deaths <= ev.pre.deaths + 1
        /\ Len(ev.log.respawns) <= 1


----------------------------------------------------------------------------
(* Properties of the cell under the player's centre                        *)

\* the tile checkTileInteractions read under the player's centre in the step just taken
CheckedTile ==
    TileAt(rooms[ev.log.check[1].roomIndex + 1].rows, ev.log.check[1].tx, ev.log.check[1].ty)

\* C22: at the end of every step the cell under the player's centre is neither a goal
\* tile nor an always-on spike tile of the live room; when the step's tile check read a
\* goal tile the step loaded a room, when it read an always-on spike the step respawned,
\* and either way the step ends with the player on the spawn centre, a cell holding S.
C22_CentreResolved ==
    ev.kind = "step" =>
        /\ CentreTile(Cur) \notin {"G", "^"}
        /\ CheckedTile = "G" =>
              /\ ev.log.loads # <<>>
              /\ ev.log.loads[Len(ev.log.loads)] = roomIndex
              /\ player.pos = SpawnCentre(LiveRoom(Cur))
              /\ CentreTile(Cur) = "S"
        /\ CheckedTile = "^" =>
              /\ ev.log.respawns # <<>>
              /\ ev.log.check[1].roomIndex = roomIndex
              /\ player.pos = SpawnCentre(LiveRoom(Cur))
              /\ CentreTile(Cur) = "S"

\* C22 witness: a step carried the centre onto an always-on spike away from the spawn tile
C22_Witness ==
    /\ ev.kind = "step"
    /\ CheckedTile = "^"
    /\ "KeyR" \notin ev.pressed
    /\ Len(ev.log.respawns) = 1
    /\ ev.log.respawns[1].before.player.pos # player.pos

\* a step carried the centre onto a goal tile
C22_GoalReached ==
    /\ ev.kind = "step"
    /\ CheckedTile = "G"
    /\ ev.log.loads # <<>>

============================================================================
